---- MODULE Spec2Model ----
(***************************************************************************)
(* A model of the TEC forecasting drivers: STResNet/main.py (training) and *)
(* ModelValidation/gen_pred_tec.py (prediction), with the batching         *)
(* utilities they import (batch_utils, omn_utils, st_resnet), whose        *)
(* behaviour is taken from the design document.                            *)
(* ModelValidation/ts_pred_lat_bin.py enters with the directory it reads   *)
(* the saved predictions from.                                             *)
(*                                                                         *)
(* A datetime is the number of minutes since 2015-01-01 00:00.  A TEC map  *)
(* is identified by the datetime it belongs to.  A string is the sequence  *)
(* of its pieces; "/" is always a piece of its own.                        *)
(***************************************************************************)
EXTENDS Integers, Sequences, FiniteSets, TLC

\* ---------------------------------------------------------------- bounds
MaxBatch == 3
MaxSpan == 3
MaxLoadWindow == 2
MaxSeqLen == 2
MaxOut == 2
MaxEpochs == 2
MaxTick == 2

VARIABLES
    param,         \* the Params object (hyperparameters and switches)
    archive,       \* datetimes the TEC archive on disk has no map for
    dirs,          \* directories on disk
    files,         \* files on disk: path -> content
    script,        \* "idle", "main" or "gen_pred": the script that is running
    pc,            \* position in the running script
    model_path,    \* main.py: param.model_path after line 59
    saved_model_path, \* gen_pred_tec.py: param.saved_model_path
    path,          \* the "_values" directory of the running script
    omnObj,        \* the OmnData object: normalization values in use
    batch_dict,    \* batchObj.batch_dict: the ordered batch schedule
    tecObj,        \* the TECUtils object: the loaded table of TEC maps
    date_arr_train, date_arr_test,   \* the batch keys each loop iterates
    epoch, tr_ind, te_ind,           \* loop counters
    loss_values,   \* gen_pred_tec.py: loss_values
    train_loss, validation_loss,     \* main.py: the loss of every epoch so far
    outs,          \* gen_pred_tec.py: loss_v, pred, truth, closeness, period, trend
    log,           \* what the running script did: batch visits, feeds, calls
    tsObj,         \* ts_pred_lat_bin.py: the ModValTSLat object
    tspc,          \* ts_pred_lat_bin.py: "none", "ready", "returned" or "failed"
    tslog          \* the calls made on the ModValTSLat object

vars == <<param, archive, dirs, files, script, pc, model_path, saved_model_path,
          path, omnObj, batch_dict, tecObj, date_arr_train, date_arr_test,
          epoch, tr_ind, te_ind, loss_values, train_loss, validation_loss,
          outs, log, tsObj, tspc, tslog>>

\* the variables of the training and prediction scripts, and those of the
\* validation script
drivervars == <<param, archive, dirs, script, pc, model_path, saved_model_path,
                path, omnObj, batch_dict, tecObj, date_arr_train, date_arr_test,
                epoch, tr_ind, te_ind, loss_values, train_loss, validation_loss,
                outs, log>>

tsvars == <<tsObj, tspc, tslog>>

\* ------------------------------------------------------- time and strings
\* dt.timedelta(days=n), in minutes
timedelta_days(n) == n * 24 * 60

\* param.tec_resolution, minutes between two maps of the archive
tec_resolution == 6 * 60

Digit(n) == <<"0", "1", "2", "3", "4", "5", "6", "7", "8", "9">>[n + 1]

\* the number a digit stands for
DigitValue(c) == CHOOSE n \in 0..9 : Digit(n) = c

TwoDigits(n) == <<Digit(n \div 10), Digit(n % 10)>>

\* dtm.strftime("%Y%m%d.%H%M") for a datetime of January 2015
strftime(dtm) ==
    <<"2", "0", "1", "5">> \o <<"0", "1">> \o TwoDigits((dtm \div (24 * 60)) + 1)
    \o <<".">> \o TwoDigits((dtm % (24 * 60)) \div 60) \o TwoDigits(dtm % 60)

\* the pieces of a path up to its last "/" (the directory the file is in)
RECURSIVE DirName(_)
DirName(p) ==
    IF p = <<>> THEN <<>>
    ELSE IF p[Len(p)] = "/" THEN SubSeq(p, 1, Len(p) - 1)
    ELSE DirName(SubSeq(p, 1, Len(p) - 1))

IsPrefix(s, t) == Len(s) <= Len(t) /\ SubSeq(t, 1, Len(s)) = s

IsSuffix(s, t) == Len(s) <= Len(t) /\ SubSeq(t, Len(t) - Len(s) + 1, Len(t)) = s

Range(s) == {s[i] : i \in 1..Len(s)}

\* the ascending sequence of a finite set of integers
RECURSIVE SortedSeq(_)
SortedSeq(S) ==
    IF S = {} THEN <<>>
    ELSE LET m == CHOOSE x \in S : \A y \in S : x <= y
         IN <<m>> \o SortedSeq(S \ {m})

\* ------------------------------------------------------ batching utilities
\* WindowSampler: the offsets (in ticks of the base resolution) of a channel
\* sampled every f-th tick, L times, most recent first
ChannelOffsets(f, L) == [k \in 1..L |-> -(k * f)]

\* WindowSampler: the offsets of the output horizon
OutputOffsets(of, O) == [k \in 1..O |-> k * of]

\* the datetimes at the offsets offs from anchor
OffsetDatetimes(anchor, offs, resolution) ==
    [k \in DOMAIN offs |-> anchor + offs[k] * resolution]

\* WindowSampler: what one anchor requires; a disabled channel requires nothing
AnchorPoint(dtm, resolution, closeness_freq, closeness_len, period_freq, period_len, trend_freq, trend_len, num_outputs, output_freq, closeness_channel, period_channel, trend_channel) ==
    [dtm    |-> dtm,
     close  |-> IF closeness_channel
                THEN OffsetDatetimes(dtm, ChannelOffsets(closeness_freq, closeness_len), resolution)
                ELSE <<>>,
     period |-> IF period_channel
                THEN OffsetDatetimes(dtm, ChannelOffsets(period_freq, period_len), resolution)
                ELSE <<>>,
     trend  |-> IF trend_channel
                THEN OffsetDatetimes(dtm, ChannelOffsets(trend_freq, trend_len), resolution)
                ELSE <<>>,
     out    |-> OffsetDatetimes(dtm, OutputOffsets(output_freq, num_outputs), resolution)]

\* every datetime an anchor requires
RequiredDatetimes(point) ==
    Range(point.close) \cup Range(point.period) \cup Range(point.trend) \cup Range(point.out)

\* TimeGridIndex.load: the datetimes of the maps read from the archive, those of
\* [start_date - load_window days, end_date + load_window days] the archive holds
TimeGridIndex(start_date, end_date, resolution, load_window) ==
    {t \in {start_date - timedelta_days(load_window) + k * resolution :
                k \in 0..((end_date - start_date + 2 * timedelta_days(load_window)) \div resolution)} :
        t \notin archive}

\* WindowSampler.is_anchor_valid
is_anchor_valid(point, index) == RequiredDatetimes(point) \subseteq index

\* BatchScheduleBuilder: consecutive groups of batch_size, the last one kept short
Partition(anchors, batch_size) ==
    LET n == Len(anchors)
    IN [i \in 1..((n + batch_size - 1) \div batch_size) |->
            SubSeq(anchors, (i - 1) * batch_size + 1,
                   IF i * batch_size <= n THEN i * batch_size ELSE n)]

\* BatchDateUtils(...).batch_dict: the valid anchors of [start_date, end_date] in
\* chronological order, split into batches; a batch is keyed by its first anchor
BatchDateUtils(start_date, end_date, batch_size, resolution, data_point_freq, closeness_freq, closeness_len, period_freq, period_len, trend_freq, trend_len, num_outputs, output_freq, closeness_channel, period_channel, trend_channel) ==
    LET step == resolution * data_point_freq
        index == TimeGridIndex(start_date, end_date, resolution, param.load_window)
        point(d) == AnchorPoint(d, resolution, closeness_freq, closeness_len,
                                period_freq, period_len, trend_freq, trend_len,
                                num_outputs, output_freq,
                                closeness_channel, period_channel, trend_channel)
        valid == {d \in {start_date + k * step : k \in 0..((end_date - start_date) \div step)} :
                     is_anchor_valid(point(d), index)}
        anchors == SortedSeq(valid)
    IN Partition([i \in 1..Len(anchors) |-> point(anchors[i])], batch_size)

\* list(batchObj.batch_dict.keys())
Keys(bd) == [i \in 1..Len(bd) |-> bd[i][1].dtm]

\* batchObj.batch_dict[current_datetime]
Lookup(bd, key) == bd[CHOOSE i \in 1..Len(bd) : bd[i][1].dtm = key]

\* TECUtils(...): the bulk load of the TEC maps, and the channels to build
TECUtils(start_date, end_date, resolution, load_window, closeness_channel, period_channel, trend_channel) ==
    [tec_data          |-> TimeGridIndex(start_date, end_date, resolution, load_window),
     closeness_channel |-> closeness_channel,
     period_channel    |-> period_channel,
     trend_channel     |-> trend_channel]

\* what create_batch looks up for one anchor: the enabled channels and the output
Lookups(obj, point) ==
    (IF obj.closeness_channel THEN Range(point.close) ELSE {})
    \cup (IF obj.period_channel THEN Range(point.period) ELSE {})
    \cup (IF obj.trend_channel THEN Range(point.trend) ELSE {})
    \cup Range(point.out)

\* create_batch handing over the rows it could build when a lookup fails
create_batch_Partial(obj, curr_batch_time_dict) ==
    LET n == Len(curr_batch_time_dict)
        built == {j \in 1..n : \A k \in 1..j : Lookups(obj, curr_batch_time_dict[k]) \subseteq obj.tec_data}
        m == Cardinality(built)
    IN [ok          |-> m = n,
        data_close  |-> IF obj.closeness_channel
                        THEN [j \in 1..m |-> curr_batch_time_dict[j].close] ELSE <<>>,
        data_period |-> IF obj.period_channel
                        THEN [j \in 1..m |-> curr_batch_time_dict[j].period] ELSE <<>>,
        data_trend  |-> IF obj.trend_channel
                        THEN [j \in 1..m |-> curr_batch_time_dict[j].trend] ELSE <<>>,
        data_out    |-> [j \in 1..m |-> curr_batch_time_dict[j].out]]

\* TECUtils.create_batch: (data_close, data_period, data_trend, data_out), each
\* [batch, sequence] of maps; the slot of a disabled channel is empty; the call
\* fails as a whole when a map it looks up is not loaded
create_batch(obj, curr_batch_time_dict) ==
    LET n == Len(curr_batch_time_dict)
    IN IF \E j \in 1..n : ~ (Lookups(obj, curr_batch_time_dict[j]) \subseteq obj.tec_data)
       THEN [ok |-> FALSE]
       ELSE [ok          |-> TRUE,
             data_close  |-> IF obj.closeness_channel
                             THEN [j \in 1..n |-> curr_batch_time_dict[j].close] ELSE <<>>,
             data_period |-> IF obj.period_channel
                             THEN [j \in 1..n |-> curr_batch_time_dict[j].period] ELSE <<>>,
             data_trend  |-> IF obj.trend_channel
                             THEN [j \in 1..n |-> curr_batch_time_dict[j].trend] ELSE <<>>,
             data_out    |-> [j \in 1..n |-> curr_batch_time_dict[j].out]]

\* OmnData.get_omn_batch: the exogenous records of batch_size anchors from
\* current_datetime on, each over the trend window
get_omn_batch(current_datetime, batch_size, trend_freq, trend_len) ==
    [j \in 1..batch_size |->
        OffsetDatetimes(current_datetime + (j - 1) * param.tec_resolution * param.data_point_freq,
                        ChannelOffsets(trend_freq, trend_len), param.tec_resolution)]

\* a name that is not bound, and one bound to v
Unset == [set |-> FALSE]

Value(v) == [set |-> TRUE, v |-> v]

\* OmnData(...): a training run computes the normalization values over its date
\* range and persists them under path; any other run reads the persisted ones
MeanStdFile(values_path) == values_path \o <<"/", "mean_std.npy">>

MeanStd(start, end) == [kind |-> "mean_std", start |-> start, end |-> end]

\* files is what the disk holds after the construction, obj the object built;
\* reading persisted values that are not there fails
OmnData(start, end, train, imf_normalize, values_path, fs) ==
    IF ~ imf_normalize
    THEN [ok |-> TRUE, files |-> fs, obj |-> Unset]
    ELSE IF train
    THEN [ok |-> TRUE,
          files |-> (MeanStdFile(values_path) :> MeanStd(start, end)) @@ fs,
          obj |-> Value([read |-> <<>>, mean_std |-> MeanStd(start, end)])]
    ELSE IF MeanStdFile(values_path) \notin DOMAIN fs
    THEN [ok |-> FALSE]
    ELSE [ok |-> TRUE, files |-> fs,
          obj |-> Value([read |-> MeanStdFile(values_path), mean_std |-> fs[MeanStdFile(values_path)]])]

\* the model graph, a black box: what sess.run returns for the fetches asked,
\* row j of every output computed from row j of the tensors fed
SessRun(feed, fetches) ==
    LET n == Len(feed.output_tec)
        row(name, j) == IF name \in DOMAIN feed THEN feed[name][j] ELSE <<>>
        value(f) ==
            CASE f = "loss" -> [kind |-> "loss", of |-> feed.output_tec]
              [] f = "x_res" -> [j \in 1..n |->
                                    [kind |-> "x_res", c |-> row("c_tec", j),
                                     p |-> row("p_tec", j), t |-> row("t_tec", j)]]
              [] f = "output_tec" -> [j \in 1..n |-> [kind |-> "truth", out |-> feed.output_tec[j]]]
              [] f \in {"closeness_output", "exo_close"} ->
                    [j \in 1..n |-> [kind |-> f, c |-> row("c_tec", j)]]
              [] f \in {"period_output", "exo_period"} ->
                    [j \in 1..n |-> [kind |-> f, c |-> row("p_tec", j)]]
              [] f \in {"trend_output", "exo_trend"} ->
                    [j \in 1..n |-> [kind |-> f, c |-> row("t_tec", j)]]
              [] OTHER -> [kind |-> f]
    IN [i \in 1..Len(fetches) |-> value(fetches[i])]

\* the batch dimensions of the tensors of a feed_dict
BatchDims(feed) == {Len(feed[k]) : k \in DOMAIN feed}

\* ------------------------------------------------------- gen_pred_tec.py
\* the closeness size taken from the period's length
closeness_size_FromPeriod == param.period_sequence_length

closeness_size == param.closeness_sequence_length

\* the period size taken from the trend's length
period_size_FromTrend == param.trend_sequence_length

period_size == param.period_sequence_length

trend_size == param.trend_sequence_length

\* omn_train with the value main.py gives it
omn_train_Training == TRUE

\* omn_train=False
omn_train == FALSE

start_date_omni == param.start_date - timedelta_days(param.load_window)

end_date_omni == param.end_date + timedelta_days(param.load_window)

\* path = param.saved_model_path+"_values"
GenPath(saved) == saved \o <<"_values">>

\* omnObj = OmnData(start_date_omni, end_date_omni, ..., omn_train, param.imf_normalize, path)
GenOmnObj(saved, fs) ==
    OmnData(start_date_omni, end_date_omni, omn_train, param.imf_normalize, GenPath(saved), fs)

\* the call with closeness_size where the batch size belongs
GenBatchObj_WrongSize ==
    BatchDateUtils(param.start_date, param.end_date, closeness_size, param.tec_resolution, param.data_point_freq, param.closeness_freq, closeness_size, param.period_freq, period_size, param.trend_freq, trend_size, param.num_of_output_tec_maps, param.output_freq, param.closeness_channel, param.period_channel, param.trend_channel)

GenBatchObj ==
    BatchDateUtils(param.start_date, param.end_date, param.batch_size, param.tec_resolution, param.data_point_freq, param.closeness_freq, closeness_size, param.period_freq, period_size, param.trend_freq, trend_size, param.num_of_output_tec_maps, param.output_freq, param.closeness_channel, param.period_channel, param.trend_channel)

\* the bulk load without the load window's margin
GenTecObj_NoWindow ==
    TECUtils(param.start_date, param.end_date, param.tec_resolution, 0, param.closeness_channel, param.period_channel, param.trend_channel)

GenTecObj ==
    TECUtils(param.start_date, param.end_date, param.tec_resolution, param.load_window, param.closeness_channel, param.period_channel, param.trend_channel)

\* the weight matrix tiled to (B, H, W, O): one entry per row of the batch
loss_weight_matrix == [j \in 1..param.batch_size |-> <<>>]

\* g.saver.restore(sess, param.saved_model_path+param.saved_model)
RestorePath(saved) == saved \o param.saved_model

\* path_pred = path+'/'+"predicted_tec"
PathPred(values_path) == values_path \o <<"/", "predicted_tec">>

\* the feed_dict with all three channels whatever the switches, as main.py feeds
FeedDict_AllChannels(data, imf_batch) ==
    [c_tec |-> data.data_close, p_tec |-> data.data_period, t_tec |-> data.data_trend,
     output_tec |-> data.data_out, loss_weight_matrix |-> loss_weight_matrix]
    @@ (IF param.add_exogenous THEN "exogenous" :> imf_batch ELSE <<>>)

\* the feed_dict of the branch taken, lines 131-201; <<>> when no branch is taken
FeedDict(data, imf_batch) ==
    IF ~ param.closeness_channel THEN <<>>
    ELSE ("c_tec" :> data.data_close)
         @@ (IF param.period_channel THEN "p_tec" :> data.data_period ELSE <<>>)
         @@ (IF param.trend_channel THEN "t_tec" :> data.data_trend ELSE <<>>)
         @@ ("output_tec" :> data.data_out)
         @@ (IF param.add_exogenous THEN "exogenous" :> imf_batch ELSE <<>>)
         @@ ("loss_weight_matrix" :> loss_weight_matrix)

\* the fetches of the branch taken, in the order of the assignment's targets
Fetches ==
    <<"loss", "x_res", "output_tec">>
    \o <<IF param.add_exogenous THEN "exo_close" ELSE "closeness_output">>
    \o (IF param.period_channel
        THEN <<IF param.add_exogenous THEN "exo_period" ELSE "period_output">> ELSE <<>>)
    \o (IF param.trend_channel
        THEN <<IF param.add_exogenous THEN "exo_trend" ELSE "trend_output">> ELSE <<>>)

NoOuts == [loss_v |-> Unset, pred |-> Unset, truth |-> Unset, closeness |-> Unset, period |-> Unset, trend |-> Unset]

\* loss_v, pred, truth, closeness[, period][, trend] = sess.run(...)
Assign(old, got) ==
    [old EXCEPT !.loss_v = Value(got[1]), !.pred = Value(got[2]), !.truth = Value(got[3]),
                !.closeness = Value(got[4]),
                !.period = IF param.period_channel THEN Value(got[5]) ELSE @,
                !.trend = IF param.trend_channel
                          THEN Value(got[IF param.period_channel THEN 6 ELSE 5]) ELSE @]

\* the name of the file of one kind saved for anchor dtm, lines 208-220
SaveName(values_path, dtm, kind) == PathPred(values_path) \o strftime(dtm) \o <<"_", kind, ".npy">>

\* the save loop with j never advanced: every anchor gets the first row
SavedRow_FirstRow(values_path, batch, o, j) ==
    (SaveName(values_path, batch[j].dtm, "pred") :> o.pred.v[1])
    @@ (SaveName(values_path, batch[j].dtm, "true") :> o.truth.v[1])
    @@ (IF param.closeness_channel
        THEN SaveName(values_path, batch[j].dtm, "close") :> o.closeness.v[1] ELSE <<>>)
    @@ (IF param.period_channel
        THEN SaveName(values_path, batch[j].dtm, "period") :> o.period.v[1] ELSE <<>>)
    @@ (IF param.trend_channel
        THEN SaveName(values_path, batch[j].dtm, "trend") :> o.trend.v[1] ELSE <<>>)

\* the files the save loop writes for the j-th anchor of the batch, lines 207-221
SavedRow(values_path, batch, o, j) ==
    (SaveName(values_path, batch[j].dtm, "pred") :> o.pred.v[j])
    @@ (SaveName(values_path, batch[j].dtm, "true") :> o.truth.v[j])
    @@ (IF param.closeness_channel
        THEN SaveName(values_path, batch[j].dtm, "close") :> o.closeness.v[j] ELSE <<>>)
    @@ (IF param.period_channel
        THEN SaveName(values_path, batch[j].dtm, "period") :> o.period.v[j] ELSE <<>>)
    @@ (IF param.trend_channel
        THEN SaveName(values_path, batch[j].dtm, "trend") :> o.trend.v[j] ELSE <<>>)

\* the save loop over curr_batch_time_dict.keys(): later rows overwrite earlier ones
RECURSIVE SaveLoop(_, _, _, _, _)
SaveLoop(fs, values_path, batch, o, j) ==
    IF j > Len(batch) THEN fs
    ELSE SaveLoop(SavedRow(values_path, batch, o, j) @@ fs, values_path, batch, o, j + 1)

\* what the save loop writes for one batch
SavedFiles(values_path, batch, o) == SaveLoop(<<>>, values_path, batch, o, 1)

\* ---------------------------------------------------------------- main.py
\* start_date = dt.datetime(2015, 1, 2)
start_date == timedelta_days(1)

\* end_date = dt.datetime(2015, 1, 3)
end_date == timedelta_days(2)

\* str(t02-t01), the time the bulk load took
ElapsedTimes == {"379.3"}

\* param.model_path = param.model_path + '_' + str(t02-t01)
ModelPath(elapsed) == param.model_path \o <<"_", elapsed>>

\* path = param.model_path + "_values"
MainPath(mp) == mp \o <<"_values">>

\* omnObj = OmnData(start_date_omni, end_date_omni, ..., omn_train, param.imf_normalize, path)
MainOmnObj(values_path, fs) ==
    OmnData(start_date - timedelta_days(param.load_window), end_date + timedelta_days(param.load_window), TRUE, param.imf_normalize, values_path, fs)

MainBatchObj ==
    BatchDateUtils(start_date, end_date, param.batch_size, param.tec_resolution, 1, param.closeness_freq, closeness_size, param.period_freq, period_size, param.trend_freq, trend_size, param.num_of_output_tec_maps, param.output_freq, TRUE, TRUE, TRUE)

MainTecObj ==
    TECUtils(start_date, end_date, param.tec_resolution, param.load_window, TRUE, TRUE, TRUE)

\* train_ind with int() alone, the ratio's product cut off instead of rounded
train_ind_Truncated(n) == (8 * n) \div 10

\* train_ind = int(round((train_test_ratio*batch_date_arr.shape[0]), 0)), ratio 0.8
train_ind(n) == (8 * n + 5) \div 10

\* date_arr_train with the shuffle of lines 76-77 applied
TrainDates_Shuffled(batch_date_arr) ==
    [i \in 1..train_ind(Len(batch_date_arr)) |-> batch_date_arr[train_ind(Len(batch_date_arr)) + 1 - i]]

\* date_arr_train = batch_date_arr[:train_ind]
TrainDates(batch_date_arr) == SubSeq(batch_date_arr, 1, train_ind(Len(batch_date_arr)))

\* date_arr_test = batch_date_arr[train_ind:]
TestDates(batch_date_arr) ==
    SubSeq(batch_date_arr, train_ind(Len(batch_date_arr)) + 1, Len(batch_date_arr))

\* the feed_dict of a training or validation step, lines 120-133 and 155-167
MainFeedDict(data, imf_batch) ==
    [c_tec |-> data.data_close, p_tec |-> data.data_period,
     t_tec |-> data.data_trend, output_tec |-> data.data_out]
    @@ (IF param.add_exogenous THEN "exogenous" :> imf_batch ELSE <<>>)

\* g.saver.save(sess, param.model_path+"/"+name)
Checkpoint(mp, name) == mp \o <<"/">> \o name

LossFile(values_path, name) == values_path \o <<"/", name>>

\* ------------------------------------------------------ ts_pred_lat_bin.py
\* self.modelDir = baseModelDir + modelName + "/" + "predicted_tec/"
modelDir(baseModelDir, modelName) == baseModelDir \o modelName \o <<"/", "predicted_tec", "/">>

\* glob.glob( self.modelDir + "*" + fType + ".npy" ) over the files on disk: the
\* files of the directory whose name ends with fType + ".npy"
fList(fs, dir, fType) ==
    {f \in DOMAIN fs : /\ IsPrefix(dir, f)
                       /\ DirName(f) \o <<"/">> = dir
                       /\ IsSuffix(<<fType, ".npy">>, f)}

\* None, for timeRange and mlonRange
None == <<>>

\* the asserts of lines 32-37: both ends of the time range on a 5-minute mark
TimeRangeOK_EndOnly(timeRange) == timeRange = None \/ (timeRange[2] % 60) % 5 = 0

TimeRangeOK(timeRange) ==
    timeRange = None \/ ((timeRange[1] % 60) % 5 = 0 /\ (timeRange[2] % 60) % 5 = 0)

\* ModValTSLat(...): the object __init__ leaves when its asserts pass
ModValTSLat(baseModelDir, modelName, trueTecBaseDir, timeRange, latBinSize, mlonRange) ==
    [modelDir       |-> modelDir(baseModelDir, modelName),
     trueTecBaseDir |-> trueTecBaseDir,
     timeRange      |-> timeRange,
     latBinSize     |-> latBinSize,
     mlonRange      |-> mlonRange,
     tecModelDict   |-> <<>>,
     tecTrueDict    |-> <<>>]

\* fNameList, lines 60-66: a name for every 5 minutes from timeRange[0] on, up
\* to timeRange[1], the loop's currTime <= timeRange[1]
fNameList_Exclusive(dir, timeRange, fType) ==
    {dir \o strftime(timeRange[1] + 5 * k) \o <<"_", fType, ".npy">> :
        k \in 0..(((timeRange[2] - timeRange[1] + 4) \div 5) - 1)}

fNameList(dir, timeRange, fType) ==
    {dir \o strftime(timeRange[1] + 5 * k) \o <<"_", fType, ".npy">> :
        k \in 0..((timeRange[2] - timeRange[1]) \div 5)}

\* fList after lines 52-68: the glob, cut down to the time range when one is set
SelectedFiles(fs, obj, fType) ==
    IF obj.timeRange = None
    THEN fList(fs, obj.modelDir, fType)
    ELSE fList(fs, obj.modelDir, fType) \cap fNameList(obj.modelDir, obj.timeRange, fType)

\* s.split(piece)[0]
RECURSIVE SplitHead(_, _)
SplitHead(s, piece) ==
    IF s = <<>> \/ Head(s) = piece THEN <<>> ELSE <<Head(s)>> \o SplitHead(Tail(s), piece)

\* cfn = _fn.split("/")[-1]
cfn(fn) == SubSeq(fn, Len(DirName(fn)) + 2, Len(fn))

\* fDate = cfn.split(".")[0]
fDate(fn) == SplitHead(cfn(fn), ".")

\* fTime = cfn.split(".")[1].split("_")[0]
fTime(fn) == SplitHead(SubSeq(cfn(fn), Len(fDate(fn)) + 2, Len(cfn(fn))), "_")

\* datetime.datetime.strptime(fDate + "-" + fTime, "%Y%m%d-%H%M"), January 2015
strptime(date, time) ==
    (10 * DigitValue(date[7]) + DigitValue(date[8]) - 1) * 24 * 60
    + (10 * DigitValue(time[1]) + DigitValue(time[2])) * 60
    + 10 * DigitValue(time[3]) + DigitValue(time[4])

\* tfn = self.trueTecBaseDir + fDate + "/" + fDate + "." + fTime + ".npy"
tfn(obj, fn) == obj.trueTecBaseDir \o fDate(fn) \o <<"/">> \o fDate(fn) \o <<".">> \o fTime(fn) \o <<".npy">>

\* load_npy_file, lines 184-191
load_npy_file(obj, currDate, content, fType) ==
    IF fType = "pred"
    THEN [obj EXCEPT !.tecModelDict = (currDate :> content) @@ @]
    ELSE [obj EXCEPT !.tecTrueDict = (currDate :> content) @@ @]

\* the loop of lines 70-81 over fList in the order given; numpy.load of a file
\* that does not exist raises
RECURSIVE LoadLoop(_, _, _)
LoadLoop(obj, fs, order) ==
    IF order = <<>> THEN [ok |-> TRUE, obj |-> obj, error |-> "none"]
    ELSE LET fn == Head(order)
             cd == strptime(fDate(fn), fTime(fn))
             loaded == load_npy_file(obj, cd, fs[fn], "pred")
         IN IF tfn(obj, fn) \notin DOMAIN fs
            THEN [ok |-> FALSE, obj |-> loaded, error |-> "IOError"]
            ELSE LoadLoop(load_npy_file(loaded, cd, fs[tfn(obj, fn)], "true"), fs, Tail(order))

\* read_data, lines 43-126: the object it leaves and what it returns;
\* pandas.concat of an empty list raises
read_data(obj, fs, fType, order) ==
    LET r == LoadLoop(obj, fs, order)
    IN IF ~ r.ok THEN r
       ELSE IF DOMAIN r.obj.tecModelDict = {} \/ DOMAIN r.obj.tecTrueDict = {}
       THEN [ok |-> FALSE, obj |-> r.obj, error |-> "ValueError"]
       ELSE [ok |-> TRUE, obj |-> r.obj, error |-> "none",
             predTECDF |-> DOMAIN r.obj.tecModelDict, trueTECDF |-> DOMAIN r.obj.tecTrueDict]

\* generate_ts_plots, lines 129-181: pretTECDF (line 147) is read before any
\* assignment, grpDF (line 174) is no name of the module
generate_ts_plots(obj, fs, figName, order) ==
    LET r == read_data(obj, fs, "pred", order)
    IN IF ~ r.ok THEN [ok |-> FALSE, obj |-> r.obj, error |-> r.error, files |-> fs]
       ELSE IF obj.mlonRange # None
       THEN [ok |-> FALSE, obj |-> r.obj, error |-> "UnboundLocalError", files |-> fs]
       ELSE [ok |-> FALSE, obj |-> r.obj, error |-> "NameError", files |-> fs]

\* the orders in which a loop may walk a set
RECURSIVE Orders(_)
Orders(S) ==
    IF S = {} THEN {<<>>}
    ELSE UNION {{<<x>> \o order : order \in Orders(S \ {x})} : x \in S}

\* ------------------------------------------------------------ state machine
\* the hyperparameters and switches a run may be configured with
Params ==
    [batch_size : 1..MaxBatch,
     num_epochs : {MaxEpochs},
     tec_resolution : {tec_resolution},
     data_point_freq : {1},
     closeness_freq : {1},
     closeness_sequence_length : 1..MaxSeqLen,
     period_freq : {2},
     period_sequence_length : {1},
     trend_freq : {3},
     trend_sequence_length : {MaxSeqLen},
     output_freq : {1},
     num_of_output_tec_maps : {MaxOut},
     closeness_channel : BOOLEAN,
     period_channel : BOOLEAN,
     trend_channel : BOOLEAN,
     add_exogenous : BOOLEAN,
     imf_normalize : BOOLEAN,
     load_window : 0..MaxLoadWindow,
     start_date : {timedelta_days(1) - tec_resolution},
     end_date : {timedelta_days(1) - tec_resolution + MaxSpan * tec_resolution},
     model_path : {<<"model_results", "/", "model">>},
     saved_model : {<<"/", "current">>}]

\* the datetimes the archive may have no map for
ArchiveGaps == {{}, {timedelta_days(1)}}

\* the values of the variables of a script that is not running
Idle ==
    /\ script = "idle"
    /\ pc = "none"
    /\ model_path = <<>>
    /\ saved_model_path = <<>>
    /\ path = <<>>
    /\ omnObj = Unset
    /\ batch_dict = <<>>
    /\ tecObj = Unset
    /\ date_arr_train = <<>>
    /\ date_arr_test = <<>>
    /\ epoch = 0
    /\ tr_ind = 0
    /\ te_ind = 0
    /\ loss_values = <<>>
    /\ train_loss = <<>>
    /\ validation_loss = <<>>
    /\ outs = NoOuts
    /\ log = <<>>

Init ==
    /\ param \in Params
    /\ archive \in ArchiveGaps
    /\ dirs = {}
    /\ files = <<>>
    /\ Idle
    /\ tsObj = Unset
    /\ tspc = "none"
    /\ tslog = <<>>

\* an uncaught exception: the script stops where it is
Raise(what) ==
    /\ pc' = "failed"
    /\ log' = Append(log, [kind |-> "raise", what |-> what])

\* -- gen_pred_tec.py, lines 64-118: everything before the prediction loop
GenSetup(saved) ==
    /\ UNCHANGED tsvars
    /\ script = "idle"
    /\ script' = "gen_pred"
    /\ saved_model_path' = saved
    /\ UNCHANGED <<param, archive, model_path, date_arr_train, epoch, tr_ind, te_ind,
                   loss_values, train_loss, validation_loss, outs>>
    /\ IF saved \notin dirs
       THEN \* "Please copy the model to ./model_results/"
            /\ pc' = "nomodel"
            /\ UNCHANGED <<dirs, files, path, omnObj, batch_dict, tecObj, date_arr_test, log>>
       ELSE /\ path' = GenPath(saved)
            /\ IF ~ GenOmnObj(saved, files).ok
               THEN /\ Raise("mean_std")
                    /\ UNCHANGED <<dirs, files, omnObj, batch_dict, tecObj, date_arr_test>>
               ELSE /\ omnObj' = GenOmnObj(saved, files).obj
                    /\ files' = GenOmnObj(saved, files).files
                    /\ batch_dict' = GenBatchObj
                    /\ date_arr_test' = Keys(GenBatchObj)
                    /\ tecObj' = GenTecObj
                    /\ dirs' = dirs \cup {GenPath(saved), PathPred(GenPath(saved))}
                    /\ IF RestorePath(saved) \notin DOMAIN files
                       THEN Raise("restore")
                       ELSE pc' = "loop" /\ log' = <<>>

\* -- gen_pred_tec.py, lines 122-224: one iteration of the prediction loop
GenIterate ==
    /\ UNCHANGED tsvars
    /\ script = "gen_pred"
    /\ pc = "loop"
    /\ te_ind < Len(date_arr_test)
    /\ UNCHANGED <<param, archive, dirs, script, model_path, saved_model_path, path, omnObj,
                   batch_dict, tecObj, date_arr_train, date_arr_test, epoch, tr_ind,
                   train_loss, validation_loss>>
    /\ LET current_datetime == date_arr_test[te_ind + 1]
           curr_batch_time_dict == Lookup(batch_dict, current_datetime)
           first == create_batch(tecObj, curr_batch_time_dict)
           imf_batch == IF param.add_exogenous
                        THEN get_omn_batch(current_datetime, param.batch_size, param.trend_freq, trend_size)
                        ELSE <<>>
           again == create_batch(tecObj, curr_batch_time_dict)
           entry == [kind |-> "batch", key |-> current_datetime,
                     anchors |-> [j \in 1..Len(curr_batch_time_dict) |-> curr_batch_time_dict[j].dtm]]
       IN IF ~ first.ok
          THEN /\ Raise("create_batch")
               /\ UNCHANGED <<files, te_ind, loss_values, outs>>
          ELSE IF param.closeness_channel
          THEN IF ~ again.ok
               THEN /\ Raise("create_batch")
                    /\ UNCHANGED <<files, te_ind, loss_values, outs>>
               ELSE LET feed == FeedDict(again, imf_batch)
                    IN \E accepted \in IF Cardinality(BatchDims(feed)) > 1 THEN BOOLEAN ELSE {TRUE} :
                        IF ~ accepted
                        THEN /\ pc' = "failed"
                             /\ log' = Append(log, entry @@ [calls |-> <<first, again>>, fed |-> <<feed>>,
                                                             dims |-> BatchDims(feed), saved |-> {}])
                             /\ UNCHANGED <<files, te_ind, loss_values, outs>>
                        ELSE LET o == Assign(outs, SessRun(feed, Fetches))
                                 fs == SaveLoop(files, path, curr_batch_time_dict, o, 1)
                             IN /\ outs' = o
                                /\ loss_values' = Append(loss_values, o.loss_v.v)
                                /\ files' = fs
                                /\ te_ind' = te_ind + 1
                                /\ pc' = pc
                                /\ log' = Append(log, entry @@ [calls |-> <<first, again>>, fed |-> <<feed>>,
                                                                dims |-> BatchDims(feed),
                                                                saved |-> DOMAIN SavedFiles(path, curr_batch_time_dict, o)])
          ELSE \* no branch of the dispatch is taken: the names keep what they held
               IF ~ outs.loss_v.set
               THEN /\ Raise("NameError")
                    /\ UNCHANGED <<files, te_ind, loss_values, outs>>
               ELSE /\ outs' = outs
                    /\ loss_values' = Append(loss_values, outs.loss_v.v)
                    /\ files' = SaveLoop(files, path, curr_batch_time_dict, outs, 1)
                    /\ te_ind' = te_ind + 1
                    /\ pc' = pc
                    /\ log' = Append(log, entry @@ [calls |-> <<first>>, fed |-> <<>>, dims |-> {},
                                                    saved |-> DOMAIN SavedFiles(path, curr_batch_time_dict, outs)])

\* -- gen_pred_tec.py, lines 226-228: after the loop
GenFinish ==
    /\ UNCHANGED tsvars
    /\ script = "gen_pred"
    /\ pc = "loop"
    /\ te_ind = Len(date_arr_test)
    /\ files' = (LossFile(PathPred(path), "prediction_loss.npy") :> [kind |-> "losses", values |-> loss_values]) @@ files
    /\ pc' = "done"
    /\ UNCHANGED <<param, archive, dirs, script, model_path, saved_model_path, path, omnObj,
                   batch_dict, tecObj, date_arr_train, date_arr_test, epoch, tr_ind, te_ind,
                   loss_values, train_loss, validation_loss, outs, log>>

\* the process ends: nothing of it is left but what it wrote to disk
Exit ==
    /\ UNCHANGED tsvars
    /\ script # "idle"
    /\ pc \in {"done", "failed", "nomodel"}
    /\ script' = "idle"
    /\ pc' = "none"
    /\ model_path' = <<>>
    /\ saved_model_path' = <<>>
    /\ path' = <<>>
    /\ omnObj' = Unset
    /\ batch_dict' = <<>>
    /\ tecObj' = Unset
    /\ date_arr_train' = <<>>
    /\ date_arr_test' = <<>>
    /\ epoch' = 0
    /\ tr_ind' = 0
    /\ te_ind' = 0
    /\ loss_values' = <<>>
    /\ train_loss' = <<>>
    /\ validation_loss' = <<>>
    /\ outs' = NoOuts
    /\ log' = <<>>
    /\ UNCHANGED <<param, archive, dirs, files>>

\* -- main.py, lines 17-91: everything before the first epoch
MainSetup(elapsed) ==
    /\ UNCHANGED tsvars
    /\ script = "idle"
    /\ script' = "main"
    /\ model_path' = ModelPath(elapsed)
    /\ path' = MainPath(ModelPath(elapsed))
    /\ batch_dict' = MainBatchObj
    /\ tecObj' = MainTecObj
    /\ UNCHANGED <<param, archive, saved_model_path, epoch, tr_ind, te_ind, loss_values,
                   train_loss, validation_loss, outs>>
    /\ IF MainPath(ModelPath(elapsed)) \in dirs
       THEN \* os.makedirs(path) of a directory that exists
            /\ Raise("makedirs")
            /\ UNCHANGED <<dirs, files, omnObj, date_arr_train, date_arr_test>>
       ELSE /\ dirs' = dirs \cup {MainPath(ModelPath(elapsed))}
            /\ omnObj' = MainOmnObj(MainPath(ModelPath(elapsed)), files).obj
            /\ files' = MainOmnObj(MainPath(ModelPath(elapsed)), files).files
            /\ date_arr_train' = TrainDates(Keys(MainBatchObj))
            /\ date_arr_test' = TestDates(Keys(MainBatchObj))
            /\ pc' = "train"
            /\ log' = <<>>

\* one step of the training loop (optimizer TRUE) or of the validation loop
MainStep(phase, dates, ind, optimizer) ==
    LET current_datetime == dates[ind + 1]
        curr_batch_time_dict == Lookup(batch_dict, current_datetime)
        data == create_batch(tecObj, curr_batch_time_dict)
        imf_batch == IF param.add_exogenous
                     THEN get_omn_batch(current_datetime, param.batch_size, param.trend_freq, trend_size)
                     ELSE <<>>
    IN IF ~ data.ok
       THEN Raise("create_batch") /\ UNCHANGED <<tr_ind, te_ind>>
       ELSE LET feed == MainFeedDict(data, imf_batch)
            IN \E accepted \in IF Cardinality(BatchDims(feed)) > 1 THEN BOOLEAN ELSE {TRUE} :
                /\ log' = Append(log, [kind |-> phase, epoch |-> epoch, key |-> current_datetime,
                                       optimizer |-> optimizer, dims |-> BatchDims(feed),
                                       accepted |-> accepted])
                /\ IF accepted
                   THEN /\ pc' = pc
                        /\ tr_ind' = IF phase = "train" THEN tr_ind + 1 ELSE tr_ind
                        /\ te_ind' = IF phase = "val" THEN te_ind + 1 ELSE te_ind
                   ELSE /\ pc' = "failed"
                        /\ UNCHANGED <<tr_ind, te_ind>>

\* -- main.py, lines 101-138
TrainStep ==
    /\ UNCHANGED tsvars
    /\ script = "main"
    /\ pc = "train"
    /\ tr_ind < Len(date_arr_train)
    /\ MainStep("train", date_arr_train, tr_ind, TRUE)
    /\ UNCHANGED <<param, archive, dirs, files, script, model_path, saved_model_path, path,
                   omnObj, batch_dict, tecObj, date_arr_train, date_arr_test, epoch,
                   loss_values, train_loss, validation_loss, outs>>

\* -- main.py, lines 139-143: the training loop is over
EndTraining ==
    /\ UNCHANGED tsvars
    /\ script = "main"
    /\ pc = "train"
    /\ tr_ind = Len(date_arr_train)
    /\ pc' = "validate"
    /\ UNCHANGED <<param, archive, dirs, files, script, model_path, saved_model_path, path,
                   omnObj, batch_dict, tecObj, date_arr_train, date_arr_test, epoch, tr_ind,
                   te_ind, loss_values, train_loss, validation_loss, outs, log>>

\* -- main.py, lines 146-169
ValStep ==
    /\ UNCHANGED tsvars
    /\ script = "main"
    /\ pc = "validate"
    /\ te_ind < Len(date_arr_test)
    /\ MainStep("val", date_arr_test, te_ind, FALSE)
    /\ UNCHANGED <<param, archive, dirs, files, script, model_path, saved_model_path, path,
                   omnObj, batch_dict, tecObj, date_arr_train, date_arr_test, epoch,
                   loss_values, train_loss, validation_loss, outs>>

\* what lines 182-184 and 187-189 write
SaveModel(fs, name, tl, vl) ==
    (Checkpoint(model_path, name) :> [kind |-> "checkpoint"])
    @@ (LossFile(path, "training_loss.npy") :> [kind |-> "losses", values |-> tl])
    @@ (LossFile(path, "validation_loss.npy") :> [kind |-> "losses", values |-> vl])
    @@ fs

\* -- main.py, lines 171-184: the end of an epoch
EpochEnd ==
    /\ UNCHANGED tsvars
    /\ script = "main"
    /\ pc = "validate"
    /\ te_ind = Len(date_arr_test)
    /\ train_loss' = Append(train_loss, epoch)
    /\ validation_loss' = Append(validation_loss, epoch)
    /\ IF epoch % 3 = 0
       THEN /\ files' = SaveModel(files, <<"epoch_", Digit(epoch)>>, train_loss', validation_loss')
            /\ dirs' = dirs \cup {model_path}
       ELSE UNCHANGED <<files, dirs>>
    /\ epoch' = epoch + 1
    /\ tr_ind' = 0
    /\ te_ind' = 0
    /\ pc' = IF epoch + 1 < param.num_epochs THEN "train" ELSE "final"
    /\ UNCHANGED <<param, archive, script, model_path, saved_model_path, path, omnObj,
                   batch_dict, tecObj, date_arr_train, date_arr_test, loss_values, outs, log>>

\* -- main.py, lines 186-194: after the last epoch
MainFinish ==
    /\ UNCHANGED tsvars
    /\ script = "main"
    /\ pc = "final"
    /\ files' = SaveModel(files, <<"current">>, train_loss, validation_loss)
    /\ dirs' = dirs \cup {model_path}
    /\ pc' = "done"
    /\ UNCHANGED <<param, archive, script, model_path, saved_model_path, path, omnObj,
                   batch_dict, tecObj, date_arr_train, date_arr_test, epoch, tr_ind, te_ind,
                   loss_values, train_loss, validation_loss, outs, log>>

\* the models a prediction run may be pointed at: a trained one, or one that
\* was never trained
SavedModelPaths == {ModelPath(e) : e \in ElapsedTimes \cup {"380.1"}}

Next ==
    \/ \E elapsed \in ElapsedTimes : MainSetup(elapsed)
    \/ TrainStep
    \/ EndTraining
    \/ ValStep
    \/ EpochEnd
    \/ MainFinish
    \/ \E saved \in SavedModelPaths : GenSetup(saved)
    \/ GenIterate
    \/ GenFinish
    \/ Exit

Spec == Init /\ [][Next]_vars

\* ----------------------------------------- ts_pred_lat_bin.py, state machine
\* the arguments of lines 195-201
baseModelDir == <<"ModelValidation", "/">>

modelName == <<"model", "_values">>

trueTecBaseDir == <<"tec_map", "/", "filled", "/">>

figName == <<"t", "/", "t2.pdf">>

\* the datetimes there may be files for: every 5 minutes, and one in between
TSTimes == {5 * k : k \in 0..MaxTick} \cup {5 + 2}

\* timeRange: None or any two of the datetimes, in either order
TimeRanges == {None} \cup {<<a, b>> : a, b \in TSTimes}

MlonRanges == {None, <<-110, 34>>}

\* the files saved for the datetimes of P in the model's directory, and the
\* files of the reference archive for the datetimes of R
TSDisk(P, R) ==
    LET saved == {modelDir(baseModelDir, modelName) \o strftime(t) \o <<"_", k, ".npy">> :
                     t \in P, k \in {"pred", "true"}}
        ref == {trueTecBaseDir \o SubSeq(strftime(t), 1, 8) \o <<"/">> \o strftime(t) \o <<".npy">> : t \in R}
    IN [f \in saved \cup ref |-> [kind |-> "map", of |-> f]]

TSInit ==
    /\ param = CHOOSE p \in Params : TRUE
    /\ archive = {}
    /\ dirs = {}
    /\ Idle
    /\ \E P \in SUBSET TSTimes : \E gap \in {{}, {5}} : files = TSDisk(P, TSTimes \ gap)
    /\ tsObj = Unset
    /\ tspc = "none"
    /\ tslog = <<>>

\* -- ts_pred_lat_bin.py, lines 15-41 and 199-200
Construct(timeRange, mlonRange) ==
    /\ tspc = "none"
    /\ IF TimeRangeOK(timeRange)
       THEN /\ tsObj' = Value(ModValTSLat(baseModelDir, modelName, trueTecBaseDir, timeRange, 10, mlonRange))
            /\ tspc' = "ready"
       ELSE /\ tsObj' = Unset
            /\ tspc' = "failed"
    /\ tslog' = Append(tslog, [method |-> "__init__", timeRange |-> timeRange, ok |-> TimeRangeOK(timeRange),
                               error |-> IF TimeRangeOK(timeRange) THEN "none" ELSE "AssertionError"])
    /\ UNCHANGED <<drivervars, files>>

\* -- ts_pred_lat_bin.py, lines 43-126: a call of read_data
ReadData(fType) ==
    /\ tspc = "ready"
    /\ \E order \in Orders(SelectedFiles(files, tsObj.v, fType)) :
          LET r == read_data(tsObj.v, files, fType, order)
          IN /\ tsObj' = Value(r.obj)
             /\ tspc' = IF r.ok THEN "returned" ELSE "failed"
             /\ tslog' = Append(tslog, [method |-> "read_data", fType |-> fType,
                                        before |-> tsObj.v, ok |-> r.ok, error |-> r.error])
    /\ UNCHANGED <<drivervars, files>>

\* -- ts_pred_lat_bin.py, lines 129-181 and 202: a call of generate_ts_plots
GeneratePlots ==
    /\ tspc = "ready"
    /\ \E order \in Orders(SelectedFiles(files, tsObj.v, "pred")) :
          LET r == generate_ts_plots(tsObj.v, files, figName, order)
          IN /\ tsObj' = Value(r.obj)
             /\ files' = r.files
             /\ tspc' = IF r.ok THEN "returned" ELSE "failed"
             /\ tslog' = Append(tslog, [method |-> "generate_ts_plots", figName |-> figName,
                                        before |-> tsObj.v, ok |-> r.ok, error |-> r.error])
    /\ UNCHANGED drivervars

TSNext ==
    \/ \E timeRange \in TimeRanges, mlonRange \in MlonRanges : Construct(timeRange, mlonRange)
    \/ \E fType \in {"pred", "true"} : ReadData(fType)
    \/ GeneratePlots

TSSpec == TSInit /\ [][TSNext]_vars

\* ------------------------------------------------------------------ claims
\* the running script has built its schedule and loaded its table
Built == script # "idle" /\ "tec_data" \in DOMAIN tecObj

\* the date range and the channel switches the running script schedules with
RunStart == IF script = "main" THEN start_date ELSE param.start_date

RunEnd == IF script = "main" THEN end_date ELSE param.end_date

RunClose == script = "main" \/ param.closeness_channel

RunPeriod == script = "main" \/ param.period_channel

RunTrend == script = "main" \/ param.trend_channel

\* the anchors of a schedule, batch after batch
RECURSIVE Flatten(_)
Flatten(bd) == IF bd = <<>> THEN <<>> ELSE bd[1] \o Flatten(Tail(bd))

Scheduled == [i \in 1..Len(Flatten(batch_dict)) |-> Flatten(batch_dict)[i].dtm]

\* the candidate anchors of the running script, and what each requires under
\* the running script's switches
Candidates == {RunStart + k * param.tec_resolution : k \in 0..((RunEnd - RunStart) \div param.tec_resolution)}

Needs(d, ch, freq, len) ==
    IF ch THEN {d - k * freq * param.tec_resolution : k \in 1..len} ELSE {}

NeedsOut(d) == {d + k * param.output_freq * param.tec_resolution : k \in 1..param.num_of_output_tec_maps}

NeedsAll(d) ==
    Needs(d, RunClose, param.closeness_freq, param.closeness_sequence_length)
    \cup Needs(d, RunPeriod, param.period_freq, param.period_sequence_length)
    \cup Needs(d, RunTrend, param.trend_freq, param.trend_sequence_length)
    \cup NeedsOut(d)

\* datetime t has a map the running script loads under a load window of lw days
Available(t, lw) ==
    /\ RunStart - timedelta_days(lw) <= t
    /\ t <= RunEnd + timedelta_days(lw)
    /\ t \notin archive

ValidUnder(d, lw) == \A t \in NeedsAll(d) : Available(t, lw)

ValidAnchors == {d \in Candidates : ValidUnder(d, param.load_window)}

\* C1: the schedule of N valid anchors and batch size B has ceil(N/B) batches, the
\* first floor(N/B) of exactly B anchors and, when B does not divide N, a last one
\* of N mod B anchors; the batches in schedule order hold every valid anchor
\* exactly once, in chronological order.
C1_BatchPartition ==
    Built =>
        LET N == Cardinality(ValidAnchors)
            B == param.batch_size
        IN /\ Len(batch_dict) = (N + B - 1) \div B
           /\ \A i \in 1..Len(batch_dict) :
                 Len(batch_dict[i]) = IF i <= N \div B THEN B ELSE N % B
           /\ \A i \in 1..Len(batch_dict) : Len(batch_dict[i]) >= 1
           /\ Len(Scheduled) = N
           /\ Range(Scheduled) = ValidAnchors
           /\ \A i \in 1..(Len(Scheduled) - 1) : Scheduled[i] < Scheduled[i + 1]

\* C1 witness: a prediction run whose schedule ends in a short batch
C1_Witness ==
    /\ script = "gen_pred"
    /\ Built
    /\ Len(batch_dict) >= 2
    /\ Len(batch_dict[Len(batch_dict)]) < param.batch_size
    /\ Len(batch_dict[1]) = param.batch_size

\* what the running script's schedule builder requires of candidate anchor d
RunPoint(d) ==
    AnchorPoint(d, param.tec_resolution, param.closeness_freq, param.closeness_sequence_length, param.period_freq, param.period_sequence_length, param.trend_freq, param.trend_sequence_length, param.num_of_output_tec_maps, param.output_freq, RunClose, RunPeriod, RunTrend)

\* the tensors of a create_batch result have one row per anchor of the batch and,
\* per row, the configured number of maps for every enabled channel and the output
ShapesAsConfigured(data, n) ==
    /\ RunClose => /\ Len(data.data_close) = n
                   /\ \A j \in 1..n : Len(data.data_close[j]) = param.closeness_sequence_length
    /\ RunPeriod => /\ Len(data.data_period) = n
                    /\ \A j \in 1..n : Len(data.data_period[j]) = param.period_sequence_length
    /\ RunTrend => /\ Len(data.data_trend) = n
                   /\ \A j \in 1..n : Len(data.data_trend[j]) = param.trend_sequence_length
    /\ Len(data.data_out) = n
    /\ \A j \in 1..n : Len(data.data_out[j]) = param.num_of_output_tec_maps

\* C2: create_batch succeeds on every anchor is_anchor_valid accepts and on every
\* batch of the schedule, with tensors whose sequence dimension is the channel's
\* configured length and whose output dimension is the configured number of output
\* maps; no create_batch call of a run fails.
C2_CreateBatchSucceeds ==
    Built =>
        /\ \A d \in Candidates :
              is_anchor_valid(RunPoint(d), tecObj.tec_data) =>
                  /\ create_batch(tecObj, <<RunPoint(d)>>).ok
                  /\ ShapesAsConfigured(create_batch(tecObj, <<RunPoint(d)>>), 1)
        /\ \A i \in 1..Len(batch_dict) :
              /\ create_batch(tecObj, batch_dict[i]).ok
              /\ ShapesAsConfigured(create_batch(tecObj, batch_dict[i]), Len(batch_dict[i]))
        /\ \A k \in 1..Len(log) :
              /\ ~ (log[k].kind = "raise" /\ log[k].what = "create_batch")
              /\ log[k].kind = "batch" => \A c \in 1..Len(log[k].calls) : log[k].calls[c].ok

\* C2 witness: a prediction run has called create_batch on a batch of two anchors
\* with closeness sequences of length two
C2_Witness ==
    /\ script = "gen_pred"
    /\ param.closeness_channel
    /\ param.closeness_sequence_length = 2
    /\ \E k \in 1..Len(log) :
          /\ log[k].kind = "batch"
          /\ Len(log[k].anchors) = 2
          /\ log[k].calls[1].ok
          /\ Len(log[k].calls[1].data_close[2]) = 2

\* the offsets -f, -2f, ..., -Lf, each once, from the most recent on
ExactlyBack(offs, f, L) ==
    /\ Len(offs) = L
    /\ Range(offs) = {-(k * f) : k \in 1..L}
    /\ Cardinality(Range(offs)) = L
    /\ \A k \in 1..L : offs[k] % f = 0 /\ offs[k] < 0
    /\ \A k \in 1..(L - 1) : offs[k + 1] < offs[k]

\* the offsets of, 2*of, ..., O*of, each once, in time order
ExactlyAhead(offs, of, O) ==
    /\ Len(offs) = O
    /\ Range(offs) = {k * of : k \in 1..O}
    /\ \A k \in 1..(O - 1) : offs[k] < offs[k + 1]

\* the offsets, in ticks, of the datetimes dts from anchor d
TicksFrom(d, dts) == [k \in DOMAIN dts |-> (dts[k] - d) \div param.tec_resolution]

\* C3: for frequency f >= 1 and length L >= 1 the offsets of a channel are exactly
\* the L values -f, -2f, ..., -Lf: multiples of f, pairwise distinct, strictly
\* monotonic; the output offsets are exactly of, 2*of, ..., O*of.  So are the
\* offsets of every anchor of a schedule, with the configured f, L, of and O.
C3_WindowOffsets ==
    /\ \A f \in 1..3, L \in 1..MaxSeqLen : ExactlyBack(ChannelOffsets(f, L), f, L)
    /\ \A f \in 1..3, O \in 1..MaxOut : ExactlyAhead(OutputOffsets(f, O), f, O)
    /\ Built =>
          \A i \in 1..Len(Flatten(batch_dict)) :
              LET p == Flatten(batch_dict)[i]
              IN /\ \A t \in RequiredDatetimes(p) : (t - p.dtm) % param.tec_resolution = 0
                 /\ RunClose => ExactlyBack(TicksFrom(p.dtm, p.close), param.closeness_freq,
                                            param.closeness_sequence_length)
                 /\ RunPeriod => ExactlyBack(TicksFrom(p.dtm, p.period), param.period_freq,
                                             param.period_sequence_length)
                 /\ RunTrend => ExactlyBack(TicksFrom(p.dtm, p.trend), param.trend_freq,
                                            param.trend_sequence_length)
                 /\ ExactlyAhead(TicksFrom(p.dtm, p.out), param.output_freq,
                                 param.num_of_output_tec_maps)

\* C3 witness: a prediction run's schedule holds an anchor with a trend window of
\* two samples three ticks apart and a closeness window of two samples
C3_Witness ==
    /\ script = "gen_pred"
    /\ Built
    /\ param.closeness_channel /\ param.trend_channel
    /\ param.closeness_sequence_length = 2
    /\ \E i \in 1..Len(Flatten(batch_dict)) :
          TicksFrom(Flatten(batch_dict)[i].dtm, Flatten(batch_dict)[i].trend) = <<-3, -6>>

\* what anchor d requires with all three channels enabled
FullPoint(d) ==
    AnchorPoint(d, param.tec_resolution, param.closeness_freq, param.closeness_sequence_length, param.period_freq, param.period_sequence_length, param.trend_freq, param.trend_sequence_length, param.num_of_output_tec_maps, param.output_freq, TRUE, TRUE, TRUE)

\* the placeholders and the file kinds of the channels param enables
EnabledFeeds ==
    (IF param.closeness_channel THEN {"c_tec"} ELSE {})
    \cup (IF param.period_channel THEN {"p_tec"} ELSE {})
    \cup (IF param.trend_channel THEN {"t_tec"} ELSE {})

EnabledKinds ==
    (IF param.closeness_channel THEN {"close"} ELSE {})
    \cup (IF param.period_channel THEN {"period"} ELSE {})
    \cup (IF param.trend_channel THEN {"trend"} ELSE {})

\* the slot of a channel: empty when disabled, else what it is with all enabled
SlotAsEnabled(enabled, slot, full) == slot = IF enabled THEN full ELSE <<>>

ValidWith(d, lw) ==
    is_anchor_valid(RunPoint(d), TimeGridIndex(RunStart, RunEnd, param.tec_resolution, lw))

\* d requires a historical datetime before the range a window of lw days loads
BeforeWindow(d, lw) == \E t \in NeedsAll(d) : t < RunStart - timedelta_days(lw)

\* every datetime d requires lies in the range a window of lw days loads
Covered(d, lw) ==
    \A t \in NeedsAll(d) :
        RunStart - timedelta_days(lw) <= t /\ t <= RunEnd + timedelta_days(lw)

\* the state in which a script has just built its schedule; what validity depends
\* on (param, archive, the script's date range) does not change until it exits
JustBuilt == Built /\ pc \in {"loop", "train"} /\ log = <<>> /\ epoch = 0 /\ tr_ind = 0 /\ te_ind = 0

\* C5: every datetime a scheduled anchor requires lies in
\* [start_date - load_window, end_date + load_window] and has a loaded map; an anchor
\* requiring a datetime before start_date - load_window is not scheduled; a larger
\* load_window keeps every valid anchor valid, and one that covers the required
\* datetimes of an anchor whose maps the archive holds makes that anchor valid.
C5_LoadWindowExclusion ==
    /\ Built =>
          \A i \in 1..Len(Scheduled) :
              /\ Covered(Scheduled[i], param.load_window)
              /\ NeedsAll(Scheduled[i]) \subseteq tecObj.tec_data
    /\ JustBuilt =>
          \A d \in Candidates :
              /\ BeforeWindow(d, param.load_window) =>
                    /\ d \notin Range(Scheduled)
                    /\ ~ ValidWith(d, param.load_window)
              /\ \A lw \in 0..(MaxLoadWindow + 1) :
                    /\ ValidWith(d, lw) => ValidWith(d, lw + 1)
                    /\ (Covered(d, lw) /\ NeedsAll(d) \cap archive = {}) => ValidWith(d, lw)
              /\ NeedsAll(d) \cap archive = {} => \E lw \in 0..(MaxLoadWindow + 2) : ValidWith(d, lw)

\* C5 witness: a prediction run leaves out an anchor that requires a datetime
\* before the loaded range, and the anchor is valid under a larger load window
C5_Witness ==
    /\ script = "gen_pred"
    /\ Built
    /\ Len(Scheduled) >= 1
    /\ \E d \in Candidates :
          /\ BeforeWindow(d, param.load_window)
          /\ d \notin Range(Scheduled)
          /\ ValidWith(d, param.load_window + 1)

\* the date arrays of the running script have been assigned
Arranged == Built /\ \A i \in 1..Len(log) : ~ (log[i].kind = "raise" /\ log[i].what = "makedirs")

Chronological(s) == \A i \in 1..(Len(s) - 1) : s[i] < s[i + 1]

\* the keys of the batches the loop of the given kind has visited in epoch e, in
\* the order of the visits
VisitedKeys(kind, e) ==
    LET of_kind(entry) == entry.kind = kind /\ (kind = "batch" \/ entry.epoch = e)
        visits == SelectSeq(log, of_kind)
    IN [i \in 1..Len(visits) |-> visits[i].key]

TrainingValues ==
    MeanStd(start_date - timedelta_days(param.load_window), end_date + timedelta_days(param.load_window))

\* the files holding normalization values
MeanStdFiles == {f \in DOMAIN files : files[f].kind = "mean_std"}

\* C7: normalization values are computed and persisted only by a training run,
\* under model_path + "_values"; an inference run reads them from
\* saved_model_path + "_values", the path the training of that model wrote, and
\* never recomputes or overwrites them: whatever runs have happened, every
\* persisted file holds the values its training run computed.
C7_NormalizationPersistedByTraining ==
    /\ \A f \in MeanStdFiles :
          /\ \E e \in ElapsedTimes : f = MeanStdFile(ModelPath(e) \o <<"_values">>)
          /\ files[f] = TrainingValues
    /\ (script = "main" /\ omnObj.set) =>
          /\ omnObj.v.read = <<>>
          /\ omnObj.v.mean_std = TrainingValues
          /\ MeanStdFile(model_path \o <<"_values">>) \in MeanStdFiles
    /\ (script = "gen_pred" /\ omnObj.set) =>
          /\ omnObj.v.read = MeanStdFile(saved_model_path \o <<"_values">>)
          /\ omnObj.v.read \in MeanStdFiles
          /\ omnObj.v.mean_std = TrainingValues
    /\ (script # "idle" /\ pc \notin {"nomodel", "failed"}) => (omnObj.set <=> param.imf_normalize)

\* an inference run is using persisted normalization values after an earlier
\* inference run on the same model has finished
C7_Witness ==
    /\ script = "gen_pred"
    /\ pc = "loop"
    /\ te_ind >= 1
    /\ omnObj.set
    /\ LossFile(PathPred(path), "prediction_loss.npy") \in DOMAIN files

\* gen_pred_tec.py has finished its prediction loop
GenDone == script = "gen_pred" /\ pc = "done"

\* stamp reads as YYYYMMDD.HHMM and tells the datetime dtm of January 2015
StampReads(stamp, dtm) ==
    /\ DOMAIN stamp = 1..13
    /\ SubSeq(stamp, 1, 6) = <<"2", "0", "1", "5", "0", "1">>
    /\ stamp[9] = "."
    /\ (10 * DigitValue(stamp[7]) + DigitValue(stamp[8]) - 1) * 24 * 60
       + (10 * DigitValue(stamp[10]) + DigitValue(stamp[11])) * 60
       + 10 * DigitValue(stamp[12]) + DigitValue(stamp[13]) = dtm

\* the file of one kind under path whose name ends with the stamp of dtm, or
\* <<>> when there is none
StampedName(dtm, kind) ==
    CHOOSE f \in DOMAIN files \cup {<<>>} :
        \/ /\ f # <<>>
           /\ IsPrefix(path, f)
           /\ IsSuffix(<<"_", kind, ".npy">>, f)
           /\ StampReads(SubSeq(f, Len(f) - 15, Len(f) - 3), dtm)
        \/ /\ f = <<>>
           /\ ~ \E g \in DOMAIN files :
                  /\ IsPrefix(path, g)
                  /\ IsSuffix(<<"_", kind, ".npy">>, g)
                  /\ StampReads(SubSeq(g, Len(g) - 15, Len(g) - 3), dtm)

\* the files of one kind under path
FilesOfKind(kind) ==
    {f \in DOMAIN files : IsPrefix(path, f) /\ IsSuffix(<<"_", kind, ".npy">>, f)}

\* C8: once the prediction loop has finished, every anchor of every batch of
\* the schedule has exactly one prediction file and one ground-truth file named
\* by its timestamp as YYYYMMDD.HHMM; the file of the j-th anchor of a batch
\* holds row j of the model's output for that batch; distinct anchors have
\* distinct file names.
C8_PerAnchorFiles ==
    GenDone =>
        /\ \A i \in 1..Len(batch_dict) : \A j \in 1..Len(batch_dict[i]) :
              LET point == batch_dict[i][j]
                  out == SessRun(FeedDict(create_batch(tecObj, batch_dict[i]), <<>>), <<"x_res", "output_tec">>)
              IN /\ StampedName(point.dtm, "pred") # <<>>
                 /\ StampedName(point.dtm, "true") # <<>>
                 /\ files[StampedName(point.dtm, "pred")] = out[1][j]
                 /\ files[StampedName(point.dtm, "true")] = out[2][j]
                 /\ files[StampedName(point.dtm, "pred")] = [kind |-> "x_res", c |-> point.close, p |-> point.period, t |-> point.trend]
                 /\ files[StampedName(point.dtm, "true")] = [kind |-> "truth", out |-> point.out]
        /\ Cardinality(FilesOfKind("pred")) = Len(Scheduled)
        /\ Cardinality(FilesOfKind("true")) = Len(Scheduled)
        /\ \A a, b \in Range(Scheduled) :
              a # b => /\ StampedName(a, "pred") # StampedName(b, "pred")
                       /\ StampedName(a, "true") # StampedName(b, "true")

\* the loop has finished over a schedule of several batches, one of them of
\* several anchors
C8_Witness ==
    /\ GenDone
    /\ Len(batch_dict) >= 2
    /\ \E i \in 1..Len(batch_dict) : Len(batch_dict[i]) >= 2
    /\ StampedName(batch_dict[1][2].dtm, "pred") # <<>>

\* the files the prediction loop has saved, batch after batch
SavedByLoop == UNION {log[i].saved : i \in {k \in 1..Len(log) : log[k].kind = "batch"}}

\* the parent directory and the name of the model's "_values" directory
ValuesParent == DirName(path) \o <<"/">>

ValuesName == SubSeq(path, Len(ValuesParent) + 1, Len(path))

\* C9: every per-anchor file gen_pred_tec.py saves is inside the predicted_tec
\* directory it created under the model's "_values" path, and the glob of
\* ModValTSLat.read_data over that directory finds every prediction file saved.
C9_SavedInsidePredictedTec ==
    (script = "gen_pred" /\ pc \in {"loop", "done"}) =>
        /\ PathPred(path) \in dirs
        /\ \A f \in SavedByLoop : DirName(f) = PathPred(path)
        /\ \A f \in SavedByLoop :
              IsSuffix(<<"_", "pred", ".npy">>, f) => f \in fList(files, modelDir(ValuesParent, ValuesName), "pred")

\* the datetimes of the grid the running script loads
LoadGrid ==
    {RunStart - timedelta_days(param.load_window) + k * param.tec_resolution :
        k \in 0..((RunEnd - RunStart + 2 * timedelta_days(param.load_window)) \div param.tec_resolution)}

\* every map of every tensor of a create_batch result is a map of the table
TensorsFromTable(data) ==
    \A name \in {"data_close", "data_period", "data_trend", "data_out"} :
        \A j \in 1..Len(data[name]) : Range(data[name][j]) \subseteq tecObj.tec_data

C11_ConstructAsserts ==
    \A k \in 1..Len(tslog) :
        tslog[k].method = "__init__" =>
            LET range == tslog[k].timeRange
                offMark == range # None /\ (range[1] % 5 # 0 \/ range[2] % 5 # 0)
            IN /\ offMark => /\ ~ tslog[k].ok
                             /\ tslog[k].error = "AssertionError"
                             /\ k = Len(tslog)
                             /\ tsObj = Unset
                             /\ tspc = "failed"
               /\ ~ offMark => /\ tslog[k].ok
                               /\ tsObj.set
                               /\ tsObj.v.timeRange = range
                               /\ k = Len(tslog) => /\ tspc = "ready"
                                                    /\ tsObj.v.tecModelDict = <<>>
                                                    /\ tsObj.v.tecTrueDict = <<>>

\* a construction has failed on a start time off the 5-minute marks, the end
\* time being on one
C11_Witness ==
    /\ tspc = "failed"
    /\ Len(tslog) = 1
    /\ tslog[1].method = "__init__"
    /\ tslog[1].timeRange # None
    /\ tslog[1].timeRange[1] % 5 # 0
    /\ tslog[1].timeRange[2] % 5 = 0

\* the datetimes the model directory holds a file of the type for
Held(fType) ==
    {t \in TSTimes : modelDir(baseModelDir, modelName) \o strftime(t) \o <<"_", fType, ".npy">> \in DOMAIN files}

\* those of them a call under the time range is to load: all when the range is
\* None, else the ones on the 5-minute grid from range[1] up to range[2]
ToLoad(range, fType) ==
    {t \in Held(fType) : range = None \/ (range[1] <= t /\ t <= range[2] /\ (t - range[1]) % 5 = 0)}

\* the datetimes the reference archive has no file for
NoReference ==
    {t \in TSTimes : trueTecBaseDir \o SubSeq(strftime(t), 1, 8) \o <<"/">> \o strftime(t) \o <<".npy">> \notin DOMAIN files}

\* the type of file the last call read: read_data's argument, "pred" for the
\* read_data() of generate_ts_plots
LastRead == IF tslog[Len(tslog)].method = "read_data" THEN tslog[Len(tslog)].fType ELSE "pred"

AfterRead == tsObj.set /\ Len(tslog) = 2

\* C12 as stated: read_data loads exactly the files of the model directory on
\* the 5-minute grid of the time range (every file of the type when the range is
\* None), and every key loaded is in both tecModelDict and tecTrueDict.
C12_LoadsExactlyRange ==
    AfterRead =>
        /\ DOMAIN tsObj.v.tecModelDict = ToLoad(tsObj.v.timeRange, LastRead)
        /\ DOMAIN tsObj.v.tecTrueDict = DOMAIN tsObj.v.tecModelDict

\* C12, amended: when the reference archive has a file for every datetime to
\* load, read_data loads exactly the files of the model directory on the
\* 5-minute grid of the time range (every file of the type when the range is
\* None; none when the range is empty), each under its timestamp in both
\* tecModelDict and tecTrueDict; when a reference file is missing, read_data
\* raises at the first such datetime it comes to, having loaded files to load
\* only, with that datetime's key in tecModelDict alone.
C12_LoadsExactlyRangeWithReference ==
    AfterRead =>
        LET toLoad == ToLoad(tsObj.v.timeRange, LastRead)
            model == tsObj.v.tecModelDict
            true == tsObj.v.tecTrueDict
            error == tslog[Len(tslog)].error
        IN /\ \A t \in DOMAIN model :
                 model[t] = files[modelDir(baseModelDir, modelName) \o strftime(t) \o <<"_", LastRead, ".npy">>]
           /\ \A t \in DOMAIN true :
                 true[t] = files[trueTecBaseDir \o SubSeq(strftime(t), 1, 8) \o <<"/">> \o strftime(t) \o <<".npy">>]
           /\ IF toLoad \cap NoReference = {}
              THEN /\ error # "IOError"
                   /\ DOMAIN model = toLoad
                   /\ DOMAIN true = toLoad
                   /\ (tsObj.v.timeRange # None /\ tsObj.v.timeRange[1] > tsObj.v.timeRange[2]) => DOMAIN model = {}
              ELSE /\ error = "IOError"
                   /\ DOMAIN model \subseteq toLoad
                   /\ DOMAIN true \subseteq DOMAIN model
                   /\ Cardinality(DOMAIN model \ DOMAIN true) = 1
                   /\ (DOMAIN model \ DOMAIN true) \subseteq NoReference

\* read_data has returned under the time range 00:00 to 00:10 with the files of
\* 00:00, 00:05 and 00:10 loaded and the file of 00:07 left out
C12_Witness ==
    /\ tspc = "returned"
    /\ Len(tslog) = 2
    /\ tslog[2].method = "read_data"
    /\ tsObj.v.timeRange = <<0, 10>>
    /\ 7 \in Held("pred")
    /\ DOMAIN tsObj.v.tecModelDict = {0, 5, 10}
    /\ DOMAIN tsObj.v.tecTrueDict = {0, 5, 10}

\* C13: generate_ts_plots, with mlonRange set or None, completes without error
\* and saves the figure to figName.
C13_PlotsSaved ==
    \A k \in 1..Len(tslog) :
        tslog[k].method = "generate_ts_plots" =>
            /\ tslog[k].ok
            /\ tslog[k].error = "none"
            /\ figName \in DOMAIN files

\* C14: for every batch gen_pred_tec.py feeds to the model, all fed tensors
\* have the same batch dimension, the number of anchors of the batch; the loss
\* weight matrix and the exogenous batch match the TEC tensors of every batch of
\* the schedule, a final batch shorter than batch_size included.
C14_FedBatchDimensions ==
    script = "gen_pred" =>
        \A k \in 1..Len(log) :
            (log[k].kind = "batch" /\ log[k].fed # <<>>) =>
                /\ log[k].dims = {Len(log[k].anchors)}
                /\ \A name \in DOMAIN log[k].fed[1] : Len(log[k].fed[1][name]) = Len(log[k].anchors)

\* the iterations of the prediction loop so far, a failing one included
Iterations == {k \in 1..Len(log) : log[k].kind = "batch" \/ (log[k].kind = "raise" /\ log[k].what = "NameError")}

\* C15: whatever the closeness, period, trend and exogenous switches, every
\* iteration of the prediction loop runs the model exactly once on its batch and
\* appends exactly one loss computed from that batch, never a value left over
\* and never an unset one, so that prediction_loss has one entry per batch.
C15_EveryIterationRunsModel ==
    (script = "gen_pred" /\ pc \in {"loop", "done", "failed"}) =>
        /\ \A k \in Iterations :
              /\ log[k].kind = "batch"
              /\ Len(log[k].fed) = 1
              /\ log[k].fed[1].output_tec = create_batch(tecObj, Lookup(batch_dict, log[k].key)).data_out
        /\ pc = "done" =>
              /\ Len(loss_values) = Len(batch_dict)
              /\ \A i \in 1..Len(loss_values) :
                    loss_values[i] = [kind |-> "loss", of |-> create_batch(tecObj, batch_dict[i]).data_out]

\* the steps of the given loop of epoch e on the batch of the given key
StepsOn(kind, e, key) == {k \in 1..Len(log) : log[k].kind = kind /\ log[k].epoch = e /\ log[k].key = key}

\* C16: in main.py the training keys are the first round(0.8 * N) keys of the
\* schedule and the validation keys the rest: disjoint, together every batch,
\* every training batch earlier than every validation batch; an epoch runs each
\* training batch through the optimizer exactly once and evaluates each
\* validation batch exactly once without the optimizer, all its training steps
\* before its first validation step.
C16_TrainValidationSplit ==
    (Arranged /\ script = "main") =>
        /\ -5 < 10 * Len(date_arr_train) - 8 * Len(batch_dict)
        /\ 10 * Len(date_arr_train) - 8 * Len(batch_dict) < 5
        /\ Len(date_arr_train) + Len(date_arr_test) = Len(batch_dict)
        /\ Range(date_arr_train) \cap Range(date_arr_test) = {}
        /\ Range(date_arr_train) \cup Range(date_arr_test) = {batch_dict[i][1].dtm : i \in 1..Len(batch_dict)}
        /\ \A a \in Range(date_arr_train) : \A b \in Range(date_arr_test) : a < b
        /\ \A k \in 1..Len(log) :
              /\ log[k].kind = "train" => log[k].optimizer /\ log[k].key \in Range(date_arr_train)
              /\ log[k].kind = "val" => ~ log[k].optimizer /\ log[k].key \in Range(date_arr_test)
              /\ log[k].kind \in {"train", "val"} => log[k].epoch <= epoch
        /\ \A e \in 0..epoch :
              /\ \A key \in Range(date_arr_train) :
                    /\ Cardinality(StepsOn("train", e, key)) <= 1
                    /\ e < epoch => \E k \in StepsOn("train", e, key) : log[k].accepted
              /\ \A key \in Range(date_arr_test) :
                    /\ Cardinality(StepsOn("val", e, key)) <= 1
                    /\ e < epoch => \E k \in StepsOn("val", e, key) : log[k].accepted
              /\ \A i, j \in 1..Len(log) :
                    (log[i].kind = "train" /\ log[j].kind = "val" /\ log[i].epoch = e /\ log[j].epoch = e) => i < j
              /\ (\E j \in 1..Len(log) : log[j].kind = "val" /\ log[j].epoch = e) =>
                    \A key \in Range(date_arr_train) : StepsOn("train", e, key) # {}

\* main.py is validating in its second epoch, over a schedule split into four
\* training batches and a validation batch
C16_Witness ==
    /\ Arranged
    /\ script = "main"
    /\ epoch = 1
    /\ pc = "validate"
    /\ te_ind = 1
    /\ Len(date_arr_train) = 4
    /\ Len(date_arr_test) = 1

====
